---- MODULE Spec2Model ----
(***************************************************************************)
(* Model of app.py: the zonal-statistics function compute_zonal_stats and  *)
(* the top-level Streamlit run that calls it and presents its result.      *)
(*                                                                         *)
(* Numbers that the program holds as floats are kept exact, as fractions   *)
(* n/d with d > 0, so that mean, percentiles and percentages can be        *)
(* compared without rounding.  A polygon's bounding window is a multiset   *)
(* of raster cells (no statistic depends on the order of the cells).       *)
(***************************************************************************)
EXTENDS Integers, Sequences, FiniteSets

\* ------------------------------------------------------------------ bounds
\* Cells in a polygon's bounding window (cells of every kind).
MaxCells == 2
\* Cells in a window that holds only valid cells inside the polygon.
MaxSample == 11
\* Polygons in a polygon table.
MaxPolys == 2

\* -------------------------------------------------------------- basic values
None == "None"

\* The two percentiles the program asks for (percentiles = [10, 90]).
PLow == 10
PHigh == 90

\* Cell values other than the no-data sentinel.
DataVals == {-1, 0, 2}
\* A cell that holds the raster's no-data sentinel (a no-data cell of the
\* raster, or the fill of the part of the window outside the raster extent).
\* The model writes it as one value, whatever the sentinel is.
ND == 0 - 9999
\* The raster's declared no-data values: none declared, a negative one, a
\* positive one.
NoDataVals == {None, "-9999", "9999"}
\* The sentinel the sampler works with: the declared one, or its default.
EffND(nodata) ==
  IF nodata = None THEN 0 - 999 ELSE IF nodata = "-9999" THEN 0 - 9999 ELSE 9999

CellKinds == [v : DataVals \cup {ND}, inside : BOOLEAN]
InsideData == {k \in CellKinds : k.inside /\ k.v # ND}

RECURSIVE SumOver(_, _)
SumOver(S, f) ==
  IF S = {} THEN 0
  ELSE LET x == CHOOSE y \in S : TRUE IN f[x] + SumOver(S \ {x}, f)

\* Number of cells of a window.
Size(w) == SumOver(CellKinds, w)

\* ---------------------------------------------------------------- fractions
Frac(n, d) == [n |-> n, d |-> d]
Leq(a, b) == a.n * b.d <= b.n * a.d
Lt(a, b) == a.n * b.d < b.n * a.d
Same(a, b) == a.n * b.d = b.n * a.d

\* ------------------------------------------------------------- table cells
\* A cell of a table: a number n/d, the missing-value marker (NaN or None),
\* a text, or the geometry of the polygon with the given input position.
NumCell(n, d) == [t |-> "num", n |-> n, d |-> d, s |-> ""]
NACell == [t |-> "na", n |-> 0, d |-> 1, s |-> ""]
StrCell(s) == [t |-> "str", n |-> 0, d |-> 1, s |-> s]
GeomCell(i) == [t |-> "geom", n |-> i, d |-> 1, s |-> ""]
IsNum(c) == c.t = "num"
IsNA(c) == c.t = "na"

\* ------------------------------------------------------- the sampler's part
\* zonal_stats(gdf.geometry, raster_path, stats, percentiles, add_stats,
\* nodata, all_touched=False): the cells the statistics are taken over are
\* those inside the polygon that do not hold the sentinel.
Cnt(w, v) == w[[v |-> v, inside |-> TRUE]]
Count(w) == SumOver(DataVals, [v \in DataVals |-> Cnt(w, v)])
Total(w) == SumOver(DataVals, [v \in DataVals |-> v * Cnt(w, v)])
TotalSq(w) == SumOver(DataVals, [v \in DataVals |-> v * v * Cnt(w, v)])
MinOf(w) == CHOOSE v \in DataVals : Cnt(w, v) > 0 /\ \A u \in DataVals : Cnt(w, u) > 0 => v <= u
MaxOf(w) == CHOOSE v \in DataVals : Cnt(w, v) > 0 /\ \A u \in DataVals : Cnt(w, u) > 0 => u <= v

\* The k-th (from 0) smallest sampled value.
Below(w, v) == SumOver({u \in DataVals : u < v}, [u \in DataVals |-> Cnt(w, u)])
OrderStat(w, k) == CHOOSE v \in DataVals : Below(w, v) <= k /\ k < Below(w, v) + Cnt(w, v)

PercentileWrongSign(w, q) ==
  LET n == Count(w)
      pos == q * (n - 1)
      lo == pos \div 100
      fr == pos % 100
      hi == IF lo + 1 <= n - 1 THEN lo + 1 ELSE lo
  IN Frac(100 * OrderStat(w, lo) - fr * (OrderStat(w, hi) - OrderStat(w, lo)), 100)
\* np.percentile(sample, q), linear interpolation between order statistics:
\* position q/100 * (n - 1), kept in hundredths.
Percentile(w, q) ==
  LET n == Count(w)
      pos == q * (n - 1)
      lo == pos \div 100
      fr == pos % 100
      hi == IF lo + 1 <= n - 1 THEN lo + 1 ELSE lo
  IN Frac(100 * OrderStat(w, lo) + fr * (OrderStat(w, hi) - OrderStat(w, lo)), 100)

\* float(masked.mean())
MeanOf(w) == Frac(Total(w), Count(w))
\* float(masked.std()): the population standard deviation; the model keeps
\* its square, (n * sum(x^2) - sum(x)^2) / n^2.
VarOf(w) == Frac(Count(w) * TotalSq(w) - Total(w) * Total(w), Count(w) * Count(w))

\* add_stats frost_pixels: int(np.sum(np.array(arr) < 0)).  np.array() of the
\* masked window gives the window's data without its mask, so every cell of
\* the window is compared with 0, whatever it holds and wherever it lies.
CellNum(k, nodata) == IF k.v = ND THEN EffND(nodata) ELSE k.v
FrostCount(w, nodata) ==
  SumOver({k \in CellKinds : CellNum(k, nodata) < 0}, w)

\* The naming of the percentile keys in the sampler's result.  The program
\* passes percentiles=[10, 90] and provides for the keys "percentile_<q>",
\* for the keys "<q>", and for neither being there.  (rasterstats computes
\* the percentiles named "percentile_<q>" in stats and has no parameter
\* percentiles; it accepts and ignores the keyword, which is the case "none".)
PctNamings == {"percentile", "bare", "none"}
PctKey(naming, q) ==
  IF naming = "percentile" THEN (IF q = PLow THEN "percentile_10" ELSE "percentile_90")
  ELSE (IF q = PLow THEN "10" ELSE "90")
PctKeys(naming) ==
  IF naming = "none" THEN <<>> ELSE <<PctKey(naming, PLow), PctKey(naming, PHigh)>>

\* The keys of one feature's result, in column order.
StatKeys(naming) == <<"min", "max", "mean", "count", "std">> \o PctKeys(naming) \o <<"frost_pixels">>

\* One feature's statistics, by key.
FeatureStat(w, nodata, key) ==
  IF key = "count" THEN NumCell(Count(w), 1)
  ELSE IF key = "frost_pixels" THEN NumCell(FrostCount(w, nodata), 1)
  ELSE IF Count(w) = 0 THEN NACell
  ELSE IF key = "min" THEN NumCell(MinOf(w), 1)
  ELSE IF key = "max" THEN NumCell(MaxOf(w), 1)
  ELSE IF key = "mean" THEN NumCell(MeanOf(w).n, MeanOf(w).d)
  ELSE IF key = "std" THEN NumCell(VarOf(w).n, VarOf(w).d)
  ELSE IF key \in {"percentile_10", "10"} THEN NumCell(Percentile(w, PLow).n, 100)
  ELSE NumCell(Percentile(w, PHigh).n, 100)

\* ------------------------------------------------------------------ tables
\* A table: its index labels and its columns in order (names may repeat),
\* and, for a polygon table, its declared reference system and whether its
\* coordinates are still those of the file or were moved into the raster's.
Col(name, dtype, vals) == [name |-> name, dtype |-> dtype, vals |-> vals]
NoTable == [idx |-> <<>>, cols |-> <<>>, crs |-> None, coords |-> "file", geometry |-> None]
Rows(t) == Len(t.idx)
ColsNamed(t, name) == {i \in 1..Len(t.cols) : t.cols[i].name = name}
Has(t, name) == ColsNamed(t, name) # {}
TheCol(t, name) == t.cols[CHOOSE i \in ColsNamed(t, name) : TRUE]
RangeIndex(n) == [i \in 1..n |-> i - 1]

\* t[name] = vals: every column of that name is replaced, or one is appended.
SetCol(t, name, dtype, vals) ==
  IF Has(t, name)
  THEN [t EXCEPT !.cols = [i \in 1..Len(t.cols) |->
          IF t.cols[i].name = name THEN Col(name, dtype, vals) ELSE t.cols[i]]]
  ELSE [t EXCEPT !.cols = Append(t.cols, Col(name, dtype, vals))]

\* ensure_geometry_column(gdf)
ensure_geometry_column(gdf) ==
  IF ~Has(gdf, "geometry")
  THEN LET geom_cols == {i \in 1..Len(gdf.cols) : gdf.cols[i].dtype = "geometry"}
       IN IF geom_cols # {}
          THEN [gdf EXCEPT !.geometry =
                  gdf.cols[CHOOSE i \in geom_cols : \A j \in geom_cols : i <= j].name]
          ELSE gdf
  ELSE gdf

\* detect_name_column(gdf): the column found, and the table (which gets a
\* NAME column made of the index labels when no candidate is there).
NameCandidates == <<"DISTRITO", "NOMB_DIST", "NOMBDIST", "NOMBRE", "NAME", "DISTRICT", "DIST">>
\* gdf.index.astype(str): the text of an index label.
LabelText(l) == [t |-> "str", n |-> l, d |-> 1, s |-> "label"]
detect_name_column(gdf) ==
  LET found == {i \in 1..Len(NameCandidates) : Has(gdf, NameCandidates[i])}
  IN IF found # {}
     THEN [name |-> NameCandidates[CHOOSE i \in found : \A j \in found : i <= j],
           gdf |-> gdf]
     ELSE [name |-> "NAME",
           gdf |-> SetCol(gdf, "NAME", "object",
                          [i \in 1..Rows(gdf) |-> LabelText(gdf.idx[i])])]

\* gdf.reset_index(drop=True)
ResetIndexDropped(t) == t
reset_index(t) == [t EXCEPT !.idx = RangeIndex(Rows(t))]

\* pd.concat([left, right], axis=1): the rows are matched by index label.
\* Equal indexes are matched in place; otherwise the labels must be unique
\* and the result has the labels of left followed by the new ones of right.
Unique(idx) == \A i, j \in 1..Len(idx) : idx[i] = idx[j] => i = j
Pos(idx, l) == CHOOSE i \in 1..Len(idx) : idx[i] = l
In(idx, l) == \E i \in 1..Len(idx) : idx[i] = l
SelectSeqNew(right, left) == SelectSeq(right, LAMBDA l : ~In(left, l))
Aligned(t, idx) ==
  [i \in 1..Len(t.cols) |->
     [t.cols[i] EXCEPT !.vals = [r \in 1..Len(idx) |->
        IF In(t.idx, idx[r]) THEN t.cols[i].vals[Pos(t.idx, idx[r])] ELSE NACell]]]
concat(left, right) ==
  IF left.idx = right.idx
  THEN [ok |-> TRUE, t |-> [left EXCEPT !.cols = left.cols \o right.cols]]
  ELSE IF ~Unique(left.idx) \/ ~Unique(right.idx)
  THEN [ok |-> FALSE, t |-> NoTable]
  ELSE LET idx == left.idx \o SelectSeqNew(right.idx, left.idx)
       IN [ok |-> TRUE,
           t |-> [left EXCEPT !.idx = idx,
                              !.cols = Aligned(left, idx) \o Aligned(right, idx)]]

\* ------------------------------------------------------------------ inputs
\* What one run is given (the index labels and column names are those of
\* any table a caller may hand to compute_zonal_stats; gpd.read_file itself
\* labels the rows 0..n-1): whether a raster and a vector path are resolved,
\* whether the vector file reads and the raster opens, the raster's
\* reference system and no-data value, the polygon table (its reference
\* system, the name of its attribute column, and per polygon: a geometry
\* that can or cannot be sampled, the window it covers with the file's
\* coordinates and with coordinates moved into the raster's system, its
\* attribute value and its index label), whether reprojection works, and
\* the sampler's naming of percentile keys.
CRSs == {"EPSG:4326", "EPSG:32718"}
AttrNames == {"UBIGEO", "DISTRITO", "Name", "count", "mean", "p10", "pixels",
              "frost_pct", "frost_pixels", "FROST_PIXELS"}
AttrVals == {"a", "b"}

Windows == {w \in [CellKinds -> 0..MaxCells] : Size(w) <= MaxCells}
Samples ==
  {[k \in CellKinds |-> IF k \in InsideData THEN f[k.v] ELSE 0] :
     f \in {g \in [DataVals -> 0..MaxSample] :
              SumOver(DataVals, g) <= MaxSample /\ SumOver(DataVals, g) > MaxCells}}

NoCells == [k \in CellKinds |-> 0]
OneCell(v, inside) == [NoCells EXCEPT ![[v |-> v, inside |-> inside]] = 1]
\* A polygon over one cold cell; one over a warm cell with a cold cell of
\* its bounding window outside it; one lying outside the raster extent.
ColdW == OneCell(-1, TRUE)
WarmW == [OneCell(2, TRUE) EXCEPT ![[v |-> -1, inside |-> FALSE]] = 1]
OffW == OneCell(ND, TRUE)

Poly(bad, raw, proj, attr, label) ==
  [bad |-> bad, raw |-> raw, proj |-> proj, attr |-> attr, label |-> label]
Base ==
  [rasterFound |-> TRUE, vectorFound |-> TRUE, vectorReads |-> TRUE,
   rasterOpens |-> TRUE, rasterCrs |-> "EPSG:32718", vecCrs |-> "EPSG:32718",
   reprojOK |-> TRUE, nodata |-> None, naming |-> "none", attrName |-> "UBIGEO",
   polys |-> <<Poly(FALSE, ColdW, ColdW, "a", 0)>>]

\* One polygon, every window.
WindowInputs ==
  {[Base EXCEPT !.polys = <<Poly(FALSE, w, w, "a", 0)>>, !.nodata = nd, !.naming = nm] :
     w \in Windows \cup Samples, nd \in NoDataVals, nm \in PctNamings}
\* Up to MaxPolys polygons, every index, attribute value and bad geometry.
PolySet ==
  {Poly(bad, w, w, a, l) :
     bad \in BOOLEAN, w \in {ColdW, WarmW}, a \in AttrVals, l \in 0..1}
PolySeqs == UNION {[1..n -> PolySet] : n \in 0..MaxPolys}
RowInputs ==
  {[Base EXCEPT !.polys = ps, !.naming = nm] : ps \in PolySeqs, nm \in {"percentile", "none"}}
\* One polygon, every attribute name.
ColumnInputs ==
  {[Base EXCEPT !.polys = <<Poly(FALSE, w, w, "a", 0)>>, !.attrName = an, !.naming = nm] :
     w \in {ColdW, OffW}, an \in AttrNames, nm \in PctNamings}
\* One polygon, every pair of reference systems.
CrsInputs ==
  {[Base EXCEPT !.polys = <<Poly(FALSE, raw, proj, "a", 0)>>,
                !.vecCrs = vc, !.rasterCrs = rc, !.reprojOK = ok] :
     raw \in {ColdW, WarmW, OffW}, proj \in {ColdW, WarmW},
     vc \in CRSs \cup {None}, rc \in CRSs \cup {None}, ok \in BOOLEAN}
\* Every outcome of finding and opening the files.
FileInputs ==
  {[Base EXCEPT !.rasterFound = rf, !.vectorFound = vf, !.vectorReads = vr, !.rasterOpens = ro] :
     rf \in BOOLEAN, vf \in BOOLEAN, vr \in BOOLEAN, ro \in BOOLEAN}
Inputs == WindowInputs \cup RowInputs \cup ColumnInputs \cup CrsInputs \cup FileInputs

\* gpd.read_file(vector_path): the attribute column, then the geometries.
read_file(in) ==
  LET n == Len(in.polys)
  IN [idx |-> [i \in 1..n |-> in.polys[i].label],
      cols |-> <<Col(in.attrName, "object", [i \in 1..n |-> StrCell(in.polys[i].attr)]),
                 Col("geometry", "geometry", [i \in 1..n |-> GeomCell(i)])>>,
      crs |-> in.vecCrs, coords |-> "file", geometry |-> "geometry"]

\* ------------------------------------------------------ compute_zonal_stats
\* Reproject to the raster's reference system: an undeclared system is set
\* to EPSG:4326; to_crs moves the coordinates, and its failure is passed over.
KeepUndeclaredCrs(gdf) == gdf
set_crs_if_none(gdf) == IF gdf.crs = None THEN [gdf EXCEPT !.crs = "EPSG:4326"] ELSE gdf
to_crs(gdf, raster_crs, ok) ==
  IF gdf.crs = raster_crs THEN gdf
  ELSE IF ok THEN [gdf EXCEPT !.crs = raster_crs, !.coords = "raster"]
  ELSE gdf
reproject(gdf, raster_crs, ok) ==
  LET g == set_crs_if_none(gdf)
  IN IF raster_crs # None THEN to_crs(g, raster_crs, ok) ELSE g

\* The window a polygon's geometry covers, with the coordinates it has.
WindowOf(p, coords) == IF coords = "raster" THEN p.proj ELSE p.raw

\* zonal_stats(...) inside try/except: the sampler fails on an empty
\* feature list ("Object is not a recognized source of Features") and on a
\* geometry it cannot sample (a missing geometry); it is one call for all
\* polygons, and any failure becomes a RuntimeError of the whole call.
SamplerFailsOnEmpty(polys) == Len(polys) = 0
SamplerFailsOnBad(polys) == \E i \in 1..Len(polys) : polys[i].bad
SamplerFails(polys) == Len(polys) = 0 \/ \E i \in 1..Len(polys) : polys[i].bad
zonal_stats(polys, coords, nodata, naming) ==
  [i \in 1..Len(polys) |->
     [j \in 1..Len(StatKeys(naming)) |->
        FeatureStat(WindowOf(polys[i], coords), nodata, StatKeys(naming)[j])]]

\* pd.DataFrame(zs)
DataFrame(zs, naming) ==
  [NoTable EXCEPT
     !.idx = RangeIndex(Len(zs)),
     !.cols = IF Len(zs) = 0 THEN <<>>
              ELSE [j \in 1..Len(StatKeys(naming)) |->
                      Col(StatKeys(naming)[j], "float", [i \in 1..Len(zs) |-> zs[i][j]])]]

\* df["p10"] = df["percentile_10"], or df["10"]; the same for p90.
normalize_percentiles(df) ==
  LET d1 == IF Has(df, "percentile_10")
            THEN SetCol(df, "p10", "float", TheCol(df, "percentile_10").vals)
            ELSE IF Has(df, "10") THEN SetCol(df, "p10", "float", TheCol(df, "10").vals)
            ELSE df
  IN IF Has(d1, "percentile_90")
     THEN SetCol(d1, "p90", "float", TheCol(d1, "percentile_90").vals)
     ELSE IF Has(d1, "90") THEN SetCol(d1, "p90", "float", TheCol(d1, "90").vals)
     ELSE d1

\* out.get(name, default): the column, the default in every row when there
\* is none; with several columns of the name it is a table, which cannot be
\* stored as the one column pixels, nor divided by it: the statement raises.
Several(out, name) == Cardinality(ColsNamed(out, name)) > 1
GetOr(out, name, default) ==
  IF Has(out, name) THEN TheCol(out, name).vals ELSE [i \in 1..Rows(out) |-> default]

\* np.where(pixels > 0, frost_pixels / pixels * 100, 0.0), row by row.
frost_pct(frost, pixels) ==
  IF IsNum(pixels) /\ pixels.n > 0 /\ IsNum(frost)
  THEN NumCell(frost.n * 100, pixels.n)
  ELSE NumCell(0, 1)

\* The statements after the merge: frost_pixels from FROST_PIXELS when it is
\* missing, then pixels, frost_pixels, frost_pct; then the GeoDataFrame.
finish(out0) ==
  LET o1 == IF ~Has(out0, "frost_pixels") /\ Has(out0, "FROST_PIXELS")
            THEN SetCol(out0, "frost_pixels", "float", TheCol(out0, "FROST_PIXELS").vals)
            ELSE out0
      o2 == SetCol(o1, "pixels", "float", GetOr(o1, "count", NACell))
      o3 == SetCol(o2, "frost_pixels", "float", GetOr(o2, "frost_pixels", NumCell(0, 1)))
      o4 == SetCol(o3, "frost_pct", "float",
                   [i \in 1..Rows(o3) |->
                      frost_pct(TheCol(o3, "frost_pixels").vals[i], TheCol(o3, "pixels").vals[i])])
  IN IF Several(o1, "count") \/ Several(o2, "frost_pixels") \/ ~Has(o4, "geometry")
     THEN [ok |-> FALSE, t |-> NoTable]
     ELSE [ok |-> TRUE, t |-> o4]

\* The table after zonal_stats: DataFrame, percentile names, merge, finish.
assemble(gdf, zs, naming) ==
  LET df == normalize_percentiles(DataFrame(zs, naming))
      merged == concat(reset_index(gdf), df)
  IN IF merged.ok THEN finish(merged.t) ELSE merged

\* ------------------------------------------------------ presentation helpers
\* plot_top_tables raises when the table has neither "mean" nor "MEAN".
plot_top_tables_raises(t) == ~Has(t, "mean") /\ ~Has(t, "MEAN")
\* plot_choropleth_png(gdf, "mean") raises when there is no column to map.
plot_choropleth_raises(t) == ~Has(t, "mean") /\ ~Has(t, "MEAN")

\* -------------------------------------------------------------------- state
VARIABLES
  pc,        \* where the run is
  input,     \* what the run is given
  gdf,       \* the polygon table of the script
  name_col,  \* the column that labels polygons
  work,      \* compute_zonal_stats' own copy of the table
  zs,        \* the sampler's result, one entry per polygon
  zonal,     \* the table compute_zonal_stats returned
  raised,    \* the exception compute_zonal_stats raised, if any
  ui         \* what the page has shown, in order

vars == <<pc, input, gdf, name_col, work, zs, zonal, raised, ui>>

Init ==
  /\ input \in Inputs
  /\ pc = "paths"
  /\ gdf = NoTable
  /\ name_col = None
  /\ work = NoTable
  /\ zs = <<>>
  /\ zonal = NoTable
  /\ raised = None
  /\ ui = <<>>

ErrorNoStop(what) ==
  /\ ui' = Append(ui, what)
  /\ pc' = "results"
\* st.error(...); st.stop()
ErrorAndStop(what) ==
  /\ ui' = Append(ui, what)
  /\ pc' = "stopped"

\* The raster and vector paths: an upload or the default file, or None.
ResolvePaths ==
  /\ pc = "paths"
  /\ IF ~input.rasterFound THEN ErrorAndStop("error: no raster")
     ELSE IF ~input.vectorFound THEN ErrorAndStop("error: no vector")
     ELSE pc' = "load" /\ ui' = ui
  /\ UNCHANGED <<input, gdf, name_col, work, zs, zonal, raised>>

\* gpd.read_file, ensure_geometry_column, detect_name_column.
LoadVector ==
  /\ pc = "load"
  /\ IF ~input.vectorReads
     THEN ErrorAndStop("error: vector") /\ UNCHANGED <<gdf, name_col>>
     ELSE LET d == detect_name_column(ensure_geometry_column(read_file(input)))
          IN /\ gdf' = d.gdf
             /\ name_col' = d.name
             /\ pc' = "open"
             /\ ui' = ui
  /\ UNCHANGED <<input, work, zs, zonal, raised>>

\* compute_zonal_stats: rasterio.open, the copy, ensure_geometry_column.
\* An exception leaves the function; the script reports it and stops.
OpenRaster ==
  /\ pc = "open"
  /\ IF ~input.rasterOpens
     THEN /\ raised' = "RasterioIOError"
          /\ ErrorAndStop("error: compute")
          /\ work' = work
     ELSE /\ work' = ensure_geometry_column(gdf)
          /\ pc' = "crs"
          /\ UNCHANGED <<raised, ui>>
  /\ UNCHANGED <<input, gdf, name_col, zs, zonal>>

\* compute_zonal_stats: the reference systems are reconciled.
Reproject ==
  /\ pc = "crs"
  /\ work' = reproject(work, input.rasterCrs, input.reprojOK)
  /\ pc' = "sample"
  /\ UNCHANGED <<input, gdf, name_col, zs, zonal, raised, ui>>

\* compute_zonal_stats: zonal_stats inside try/except.
ZonalStats ==
  /\ pc = "sample"
  /\ IF SamplerFails(input.polys)
     THEN /\ raised' = "RuntimeError"
          /\ ErrorAndStop("error: compute")
          /\ zs' = zs
     ELSE /\ zs' = zonal_stats(input.polys, work.coords, input.nodata, input.naming)
          /\ pc' = "assemble"
          /\ UNCHANGED <<raised, ui>>
  /\ UNCHANGED <<input, gdf, name_col, work, zonal>>

\* compute_zonal_stats: from pd.DataFrame(zs) to the returned GeoDataFrame.
Assemble ==
  /\ pc = "assemble"
  /\ LET r == assemble(work, zs, input.naming)
     IN IF r.ok
        THEN /\ zonal' = r.t
             /\ pc' = "results"
             /\ UNCHANGED <<raised, ui>>
        ELSE /\ raised' = "ValueError"
             /\ ErrorAndStop("error: compute")
             /\ zonal' = zonal
  /\ UNCHANGED <<input, gdf, name_col, work, zs>>

\* The results table and the CSV download; an exception here is not caught.
ShowResults ==
  /\ pc = "results"
  /\ \E ok \in BOOLEAN :
       IF ok THEN pc' = "hist" /\ ui' = ui \o <<"table", "csv">>
       ELSE pc' = "crashed" /\ ui' = ui
  /\ UNCHANGED <<input, gdf, name_col, work, zs, zonal, raised>>

\* The histogram of the means; an exception here is not caught.
ShowHistogram ==
  /\ pc = "hist"
  /\ \E ok \in BOOLEAN :
       IF ok THEN pc' = "ranking" /\ ui' = Append(ui, "histogram")
       ELSE pc' = "crashed" /\ ui' = ui
  /\ UNCHANGED <<input, gdf, name_col, work, zs, zonal, raised>>

\* The ranking, inside try/except: a failure is a warning.
ShowRanking ==
  /\ pc = "ranking"
  /\ \E ok \in BOOLEAN :
       ui' = Append(ui, IF ok /\ ~plot_top_tables_raises(zonal)
                        THEN "ranking" ELSE "warning: ranking")
  /\ pc' = "map"
  /\ UNCHANGED <<input, gdf, name_col, work, zs, zonal, raised>>

\* The map, inside try/except: a failure is a warning.
ShowMap ==
  /\ pc = "map"
  /\ \E ok \in BOOLEAN :
       ui' = Append(ui, IF ok /\ ~plot_choropleth_raises(zonal)
                        THEN "map" ELSE "warning: map")
  /\ pc' = "policy"
  /\ UNCHANGED <<input, gdf, name_col, work, zs, zonal, raised>>

\* The policy text ends the page.
ShowPolicy ==
  /\ pc = "policy"
  /\ ui' = Append(ui, "policy")
  /\ pc' = "done"
  /\ UNCHANGED <<input, gdf, name_col, work, zs, zonal, raised>>

Next ==
  \/ ResolvePaths
  \/ LoadVector
  \/ OpenRaster
  \/ Reproject
  \/ ZonalStats
  \/ Assemble
  \/ ShowResults
  \/ ShowHistogram
  \/ ShowRanking
  \/ ShowMap
  \/ ShowPolicy

Spec == Init /\ [][Next]_vars

\* ------------------------------------------------------------ vocabulary
\* compute_zonal_stats has returned its table.
ReturnedPcs == {"results", "hist", "ranking", "map", "policy", "done", "crashed"}
Returned == pc \in ReturnedPcs
RowsOf(t) == 1..Rows(t)
\* The columns that compute_zonal_stats appended to the table it was given.
Computed(name) == {j \in ColsNamed(zonal, name) : j > Len(gdf.cols)}
HasComputed(name) == Computed(name) # {}
ComputedCell(name, i) == zonal.cols[CHOOSE j \in Computed(name) : TRUE].vals[i]
CellOf(name, i) == TheCol(zonal, name).vals[i]
AsFrac(c) == Frac(c.n, c.d)
\* The polygon whose geometry row i of the result carries, and its window.
PolyOfRow(i) == input.polys[CellOf("geometry", i).n]
WindowOfRow(i) == WindowOf(PolyOfRow(i), zonal.coords)
Continuous == {"min", "max", "mean", "std", "p10", "p90"}
ComputedNames == {"count", "min", "max", "mean", "std", "p10", "p90",
                  "frost_pixels", "pixels", "frost_pct"}
\* str.lower() of the column names that occur.
Lower(name) ==
  CASE name = "UBIGEO" -> "ubigeo"
    [] name = "DISTRITO" -> "distrito"
    [] name = "NAME" -> "name"
    [] name = "Name" -> "name"
    [] name = "FROST_PIXELS" -> "frost_pixels"
    [] OTHER -> name
SomeBad == \E i \in 1..Len(input.polys) : input.polys[i].bad
Shown(what) == \E k \in 1..Len(ui) : ui[k] = what
Results == {"table", "csv", "histogram", "ranking", "map", "warning: ranking",
            "warning: map", "policy"}
Errors == {"error: no raster", "error: no vector", "error: vector", "error: compute"}

\* ------------------------------------------------------------------ claims

\* C1: in every row of the returned table whose polygon sampled no valid
\* cell (count = 0), min, max, mean, std, p10 and p90 are each the
\* missing-value marker, and frost_pct is exactly 0.
C1_ZeroCountUndefined ==
  Returned =>
    \A i \in RowsOf(zonal) :
      ComputedCell("count", i).n = 0 =>
        /\ \A c \in Continuous : HasComputed(c) /\ IsNA(ComputedCell(c, i))
        /\ IsNum(CellOf("frost_pct", i)) /\ CellOf("frost_pct", i).n = 0

\* The part of C1 that does not need the percentile columns to be there.
ZeroCountRows ==
  Returned =>
    \A i \in RowsOf(zonal) :
      ComputedCell("count", i).n = 0 =>
        /\ \A c \in Continuous : HasComputed(c) => IsNA(ComputedCell(c, i))
        /\ \A c \in {"min", "max", "mean", "std"} : HasComputed(c)
        /\ IsNum(CellOf("frost_pct", i)) /\ CellOf("frost_pct", i).n = 0

\* C2: frost_pixels of a row is the number of the polygon's sampled cells
\* (inside the polygon, not no-data) with a value below 0, so that
\* 0 <= frost_pixels <= count and frost_pct = frost_pixels / count * 100
\* lies in [0, 100].
ColdSampled(w) == SumOver({v \in DataVals : v < 0}, [v \in DataVals |-> Cnt(w, v)])
C2_FrostCountsSampledCells ==
  Returned =>
    \A i \in RowsOf(zonal) :
      LET frost == ComputedCell("frost_pixels", i).n
          count == ComputedCell("count", i).n
          pct == CellOf("frost_pct", i)
      IN /\ frost = ColdSampled(WindowOfRow(i))
         /\ 0 <= frost /\ frost <= count
         /\ Leq(Frac(0, 1), AsFrac(pct)) /\ Leq(AsFrac(pct), Frac(100, 1))
         /\ count > 0 => Same(AsFrac(pct), Frac(frost * 100, count))

\* C3: the returned table has as many rows as the input has polygons, and
\* row i carries the attributes, the geometry and the statistics of the
\* i-th input polygon, whatever the index labels and identifiers are.  (A
\* column the function assigns itself, pixels or frost_pct, is C6's matter.)
Assigned == {"pixels", "frost_pct"}
C3_RowsInInputOrder ==
  Returned =>
    /\ Rows(zonal) = Len(input.polys)
    /\ Len(zonal.cols) >= Len(gdf.cols)
    /\ \A j \in 1..Len(gdf.cols) :
         /\ zonal.cols[j].name = gdf.cols[j].name
         /\ gdf.cols[j].name \notin Assigned => zonal.cols[j].vals = gdf.cols[j].vals
    /\ \A i \in RowsOf(zonal) :
         /\ CellOf("geometry", i) = GeomCell(i)
         /\ \A k \in 1..Len(StatKeys(input.naming)) :
              LET key == StatKeys(input.naming)[k]
              IN /\ HasComputed(key)
                 /\ ComputedCell(key, i) =
                      FeatureStat(WindowOf(input.polys[i], zonal.coords), input.nodata, key)
C3_Witness ==
  /\ Returned
  /\ Rows(zonal) = 2
  /\ gdf.idx = <<1, 0>>
  /\ input.polys[1].attr = input.polys[2].attr
  /\ ComputedCell("mean", 1) # ComputedCell("mean", 2)

\* C4 as claimed: when sampling fails for one polygon of N, a table of N
\* rows is returned in which that polygon's statistics are all undefined.
ComputeEnded == Returned \/ raised # None
C5_HardFailures ==
  (~input.rasterOpens \/ Len(input.polys) = 0) =>
    /\ ~Returned
    /\ pc \notin {"crs", "sample", "assemble"} \/ (input.rasterOpens /\ pc # "assemble")
    /\ zonal = NoTable
    /\ pc = "stopped" /\ input.rasterFound /\ input.vectorFound /\ input.vectorReads
         => raised # None
C5_Witness ==
  /\ Len(input.polys) = 0
  /\ input.rasterOpens
  /\ pc = "stopped"
  /\ raised = "RuntimeError"

\* C6: when the input table already has a column with the name of a computed
\* column, the call does not fail, the column's values are unchanged, the
\* computed column gets a name of its own, and a warning is recorded.
NamesDistinct(t) ==
  \A i, j \in 1..Len(t.cols) : t.cols[i].name = t.cols[j].name => i = j
C6_CollisionKeepsOriginal ==
  (input.attrName \in ComputedNames /\ ComputeEnded) =>
    /\ Returned
    /\ zonal.cols[1] = gdf.cols[1]
    /\ NamesDistinct(zonal)
    /\ \E k \in 1..Len(ui) : ui[k] = "warning: column name"

\* C7 as claimed, for the tables that carry the percentiles: with count > 0,
\* min <= p10 <= mean <= p90 <= max and std >= 0.
StatOf(name, i) == AsFrac(ComputedCell(name, i))
EffVecCrs == IF input.vecCrs = None THEN "EPSG:4326" ELSE input.vecCrs
Reprojected ==
  pc \in {"sample", "assemble"} \cup ReturnedPcs
    \/ (pc = "stopped" /\ raised \in {"RuntimeError", "ValueError"})
ReprojectionNeeded == input.rasterCrs # None /\ EffVecCrs # input.rasterCrs
ReprojectionFailed == ReprojectionNeeded /\ ~input.reprojOK
Warned == \E k \in 1..Len(ui) : ui[k] \in {"warning: reprojection", "warning: ranking", "warning: map"}
C9_ColumnNamesLowercase ==
  Returned => \A j \in 1..Len(zonal.cols) : Lower(zonal.cols[j].name) = zonal.cols[j].name

\* C10: results (table, CSV, histogram, ranking, map) are shown only after
\* compute_zonal_stats has returned; a missing raster or vector path, a
\* vector that does not read and an exception of compute_zonal_stats are
\* each reported as an error and stop the run with nothing shown; a failed
\* ranking is only a warning, and the map is still attempted.
FirstFailure ==
  IF ~input.rasterFound THEN "error: no raster"
  ELSE IF ~input.vectorFound THEN "error: no vector"
  ELSE IF ~input.vectorReads THEN "error: vector"
  ELSE "error: compute"
C10_ResultsOnlyAfterCompute ==
  /\ (Returned \/ \E k \in 1..Len(ui) : ui[k] \in Results) =>
       /\ zonal # NoTable /\ raised = None
       /\ input.rasterFound /\ input.vectorFound /\ input.vectorReads
       /\ \A k \in 1..Len(ui) : ui[k] \notin Errors
  /\ pc = "stopped" =>
       /\ ui = <<FirstFailure>>
       /\ zonal = NoTable
       /\ FirstFailure = "error: compute" <=> raised # None
  /\ raised # None => pc = "stopped"
  /\ Shown("warning: ranking") =>
       /\ pc \in {"map", "policy", "done"}
       /\ pc \in {"policy", "done"} => (Shown("map") \/ Shown("warning: map"))
C10_Witness ==
  /\ pc = "done"
  /\ Shown("warning: ranking")
  /\ Shown("map")
  /\ Shown("table")

====
